---------------------------- MODULE Spec2Model ----------------------------
(***************************************************************************)
(* A model of kraken/lib/morph.py: the add-ons to the SciPy morphology     *)
(* package.  Every function of the module is a call with arguments `args`, *)
(* a control position `pc`, local variables `loc` and an outcome `ret`.    *)
(* `env` holds what the host numeric library decides (which element types  *)
(* its labeling routine accepts on this platform).                         *)
(***************************************************************************)
EXTENDS Integers, Sequences, FiniteSets, TLC

VARIABLES
    fn,     \* the function of morph.py being executed
    args,   \* its arguments, named as in the source
    env,    \* behaviour of the host library that the platform decides
    pc,     \* control position inside the function
    loc,    \* local variables that live across steps
    ret     \* outcome: [kind |-> "none" | "return" | "raise", val |-> ...]

vars == <<fn, args, env, pc, loc, ret>>

NoRet == [kind |-> "none", val |-> <<>>]
Return(v) == [kind |-> "return", val |-> v]
Raise(e) == [kind |-> "raise", val |-> e]

(***************************************************************************)
(* label / find_objects: the retry wrappers (lines 11-48).                 *)
(***************************************************************************)

\* The alternate element types, in the order the loop tries them (line 21).
types == <<"int32", "uint32", "int64", "unit64", "int16", "uint16">>

\* The names numpy knows as integer element types; "unit64" is not one.
DTypeNames == {"int8", "uint8", "int16", "uint16", "int32", "uint32", "int64", "uint64"}

\* The two wrappers; each delegates to the measurements routine of its name.
Wrappers == {"label", "find_objects"}

\* What the loop can hand to the routine: the image as given, or a converted copy.
Inputs == {"image"} \cup {types[i] : i \in 1..Len(types)}

\* measurements.label(x) / measurements.find_objects(x): the routine is a
\* function of its input; it returns a value or raises, as env.accepts says.
Measurements(f, x) ==
    IF x \in env.accepts
    THEN Return(<<f, x>>)
    ELSE Raise(<<"RoutineError", f, x>>)

\* np.array(image, dtype=t): raises TypeError for a name that is no dtype.
NpArray(t) ==
    IF t \in DTypeNames THEN Return(t) ELSE Raise(<<"TypeError", t>>)

\* measurements.label(np.array(image, dtype=t), **kw) (line 24).
Converted(f, t) ==
    IF NpArray(t).kind = "raise" THEN NpArray(t) ELSE Measurements(f, NpArray(t).val)

InitLabel ==
    /\ fn \in Wrappers
    /\ args = [image |-> "image"]
    /\ env \in [accepts : SUBSET (Inputs \cap ({"image"} \cup DTypeNames))]
    /\ pc = "try_direct"
    /\ loc = [t |-> 1, attempts |-> <<>>]
    /\ ret = NoRet

\* Lines 17-20: the call on the image as given; any exception is swallowed.
TryDirect ==
    /\ fn \in Wrappers
    /\ pc = "try_direct"
    /\ loc' = [loc EXCEPT !.attempts = Append(@, "image")]
    /\ IF Measurements(fn, "image").kind = "return"
       THEN /\ ret' = Measurements(fn, "image")
            /\ pc' = "done"
       ELSE /\ ret' = ret
            /\ pc' = "loop"
    /\ UNCHANGED <<fn, args, env>>

\* A faulty variant of TryConverted: a success is remembered but the loop goes on.
TryConvertedNoReturn ==
    /\ fn \in Wrappers
    /\ pc = "loop"
    /\ loc.t <= Len(types)
    /\ loc' = [t |-> loc.t + 1, attempts |-> Append(loc.attempts, types[loc.t])]
    /\ IF Converted(fn, types[loc.t]).kind = "return"
       THEN /\ ret' = Converted(fn, types[loc.t])
            /\ pc' = IF loc.t = Len(types) THEN "done" ELSE "loop"
       ELSE /\ ret' = ret
            /\ pc' = IF ret.kind = "return" /\ loc.t = Len(types) THEN "done" ELSE "loop"
    /\ UNCHANGED <<fn, args, env>>

\* Lines 22-26: one iteration of the loop over types.
TryConverted ==
    /\ fn \in Wrappers
    /\ pc = "loop"
    /\ loc.t <= Len(types)
    /\ loc' = [t |-> loc.t + 1, attempts |-> Append(loc.attempts, types[loc.t])]
    /\ IF Converted(fn, types[loc.t]).kind = "return"
       THEN /\ ret' = Converted(fn, types[loc.t])
            /\ pc' = "done"
       ELSE /\ ret' = ret
            /\ pc' = "loop"
    /\ UNCHANGED <<fn, args, env>>

\* A faulty variant of FinalCall: the exception caught last is the one re-raised.
FinalCallRaisesLast ==
    /\ fn \in Wrappers
    /\ pc = "loop"
    /\ loc.t > Len(types)
    /\ loc' = [loc EXCEPT !.attempts = Append(@, "image")]
    /\ ret' = Converted(fn, types[Len(types)])
    /\ pc' = "done"
    /\ UNCHANGED <<fn, args, env>>

\* Lines 27-28: the loop is exhausted; the routine is called on the image as
\* given once more, outside any try, and its outcome is the wrapper's.
FinalCall ==
    /\ fn \in Wrappers
    /\ pc = "loop"
    /\ loc.t > Len(types)
    /\ loc' = [loc EXCEPT !.attempts = Append(@, "image")]
    /\ ret' = Measurements(fn, "image")
    /\ pc' = "done"
    /\ UNCHANGED <<fn, args, env>>

NextLabel == TryDirect \/ TryConverted \/ FinalCall

SpecLabel == InitLabel /\ [][NextLabel]_vars

----------------------------------------------------------------------------
(* Claims about label / find_objects.                                      *)

\* The order of attempts the claims speak of: the image, then each type.
AttemptOrder == <<"image">> \o types

\* The outcome of the k-th attempt of AttemptOrder.
AttemptOutcome(k) ==
    IF k = 1 THEN Measurements(fn, "image") ELSE Converted(fn, AttemptOrder[k])

Succeeds(k) == AttemptOutcome(k).kind = "return"

FirstSuccess(k) == Succeeds(k) /\ \A j \in 1..(k - 1) : ~Succeeds(j)

IsPrefix(s, u) == Len(s) <= Len(u) /\ s = SubSeq(u, 1, Len(s))

\* C1: the attempts are made in the order image, types[1], types[2], ...;
\* when the wrapper returns, it returns the result of the first attempt of
\* that order that succeeds and has made no attempt after it; and it never
\* raises when some attempt succeeds.
C1_FirstSuccessReturned ==
    /\ IsPrefix(loc.attempts, AttemptOrder \o <<"image">>)
    /\ (pc = "done" /\ ret.kind = "return") =>
           \E k \in 1..Len(AttemptOrder) :
               /\ FirstSuccess(k)
               /\ ret = AttemptOutcome(k)
               /\ loc.attempts = SubSeq(AttemptOrder, 1, k)
    /\ (\E k \in 1..Len(AttemptOrder) : Succeeds(k)) =>
           ~(pc = "done" /\ ret.kind = "raise")
    /\ (pc # "done") => ret = NoRet

\* Witness of C1: the direct call and the first conversions failed, the
\* conversion named "unit64" was passed over, and "int16" succeeded.
C1_Witness ==
    /\ fn = "label"
    /\ pc = "done"
    /\ ret = Return(<<"label", "int16">>)
    /\ loc.attempts = <<"image", "int32", "uint32", "int64", "unit64", "int16">>

\* C2: when the direct call and every conversion attempt fail, the wrapper
\* does not return: it raises the exception the routine raises for the image
\* as given, not the exception of any conversion attempt.
C2_AllFailRaisesOriginal ==
    (pc = "done" /\ \A k \in 1..Len(AttemptOrder) : ~Succeeds(k)) =>
        /\ ret = Raise(<<"RoutineError", fn, "image">>)
        /\ loc.attempts = AttemptOrder \o <<"image">>

\* Witness of C2: find_objects has raised after all seven attempts failed.
C2_Witness ==
    /\ fn = "find_objects"
    /\ pc = "done"
    /\ ret.kind = "raise"
    /\ Len(loc.attempts) = Len(types) + 2
    /\ env.accepts = {}

----------------------------------------------------------------------------
(***************************************************************************)
(* Element arithmetic.  The labeling routine returns int32 arrays, and an  *)
(* int32 array times the Python integer q stays int32: sums and products   *)
(* wrap modulo 2^32 (two's complement).                                    *)
(***************************************************************************)

\* The largest and the smallest int32.
MaxInt32 == 2147483647
MinInt32 == -MaxInt32 - 1

\* x + y in int32, for int32 x and y.
Add32(x, y) ==
    IF x >= 0 /\ y >= 0 /\ x > MaxInt32 - y
    THEN ((x - MaxInt32) - 1) + ((y - MaxInt32) - 1)
    ELSE IF x < 0 /\ y < 0 /\ x < MinInt32 - y
         THEN ((x + MaxInt32) + 1) + ((y + MaxInt32) + 1)
         ELSE x + y

\* x * n in int32, for int32 x and a natural n: by doubling where the exact
\* product does not fit.
RECURSIVE Mul32(_, _)
Mul32(x, n) ==
    IF n = 0 \/ x = 0 THEN 0
    ELSE IF x > 0 /\ x <= MaxInt32 \div n THEN x * n
    ELSE LET h == Mul32(x, n \div 2)
             d == Add32(h, h)
         IN  IF n % 2 = 1 THEN Add32(d, x) ELSE d

\* The smallest and the largest of a[lo..hi], by halving.
RECURSIVE MinOf(_, _, _)
MinOf(a, lo, hi) ==
    IF lo = hi THEN a[lo]
    ELSE LET mid == lo + (hi - lo) \div 2
             l == MinOf(a, lo, mid)
             r == MinOf(a, mid + 1, hi)
         IN  IF l <= r THEN l ELSE r

RECURSIVE MaxOf(_, _, _)
MaxOf(a, lo, hi) ==
    IF lo = hi THEN a[lo]
    ELSE LET mid == lo + (hi - lo) \div 2
             l == MaxOf(a, lo, mid)
             r == MaxOf(a, mid + 1, hi)
         IN  IF l >= r THEN l ELSE r

\* np.amin / np.amax of a non-empty array.
Amin(a) == MinOf(a, 1, Len(a))
Amax(a) == MaxOf(a, 1, Len(a))

\* The elements of a finite set S of integers within lo..hi in ascending
\* order, by halving the range of values.
RECURSIVE SortedIn(_, _, _)
SortedIn(S, lo, hi) ==
    IF S = {} THEN <<>>
    ELSE IF lo = hi THEN <<lo>>
    ELSE LET mid == lo + (hi - lo) \div 2
         IN  SortedIn({x \in S : x <= mid}, lo, mid)
                 \o SortedIn({x \in S : x > mid}, mid + 1, hi)

\* The elements of a finite set of int32 values in ascending order.
Sorted(S) ==
    SortedIn({x \in S : x < 0}, MinInt32, -1) \o SortedIn({x \in S : x >= 0}, 0, MaxInt32)

\* np.unique of an array: its distinct elements, ascending.
Unique(a) == Sorted({a[i] : i \in DOMAIN a})

(***************************************************************************)
(* correspondences (lines 146-155).                                        *)
(***************************************************************************)

\* The packing factor (line 149).
q == 100000

\* labels1 * q + labels2, element by element (line 152).
Combo(labels1, labels2) ==
    [i \in DOMAIN labels1 |-> Add32(Mul32(labels1[i], q), labels2[i])]

\* np.array([result // q, result % q]) (line 154): floor division and the
\* non-negative remainder, element by element.
Decode(result) ==
    <<[i \in DOMAIN result |-> result[i] \div q],
      [i \in DOMAIN result |-> result[i] % q]>>

\* The body of correspondences: the two assertions, then pack, unique, decode.
Correspondences(labels1, labels2) ==
    IF ~(Amin(labels1) >= 0 /\ Amin(labels2) >= 0) THEN Raise("AssertionError")
    ELSE IF ~(Amax(labels2) < q) THEN Raise("AssertionError")
    ELSE Return(Decode(Unique(Combo(labels1, labels2))))

\* The largest label a for which a * q + b fits int32 for every b < q.
MaxLossless == (MaxInt32 \div q) - 1

\* Bound: the number of pixels of the arrays given to correspondences.
MaxPixels == 2

\* Values of labels1 and labels2 the arrays are drawn from.
Labels1Values == {0, 1, MaxLossless + 1, MaxLossless + 2, 2^27}
Labels2Values == {0, 1, q - 1, q}

InitCorr ==
    /\ fn = "correspondences"
    /\ \E n \in 1..MaxPixels :
           args \in [labels1 : [1..n -> Labels1Values], labels2 : [1..n -> Labels2Values]]
    /\ env = [accepts |-> {"image"}]
    /\ pc = "call"
    /\ loc = <<>>
    /\ ret = NoRet

CallCorrespondences ==
    /\ fn = "correspondences"
    /\ pc = "call"
    /\ ret' = Correspondences(args.labels1, args.labels2)
    /\ loc' = IF Correspondences(args.labels1, args.labels2).kind = "return"
              THEN [combo |-> Combo(args.labels1, args.labels2)]
              ELSE loc
    /\ pc' = "done"
    /\ UNCHANGED <<fn, args, env>>

NextCorr == CallCorrespondences

SpecCorr == InitCorr /\ [][NextCorr]_vars

----------------------------------------------------------------------------
(* Claims about correspondences.                                           *)

\* The pairs (a, b) that co-occur on some pixel of two arrays.
CoOccurring(labels1, labels2) == {<<labels1[i], labels2[i]>> : i \in DOMAIN labels1}

\* The columns of a 2-row array.
Columns(r) == [i \in DOMAIN r[1] |-> <<r[1][i], r[2][i]>>]

LexLess(c, d) == c[1] < d[1] \/ (c[1] = d[1] /\ c[2] < d[2])

\* The inputs satisfy the stated precondition of correspondences.
CorrPre(labels1, labels2) ==
    /\ \A i \in DOMAIN labels1 : labels1[i] >= 0
    /\ \A i \in DOMAIN labels2 : labels2[i] >= 0 /\ labels2[i] < q

\* r holds exactly the co-occurring pairs, each once, ascending by a then b.
ExactPairs(r, labels1, labels2) ==
    LET cols == Columns(r)
    IN  /\ {cols[i] : i \in DOMAIN cols} = CoOccurring(labels1, labels2)
        /\ Len(cols) = Cardinality(CoOccurring(labels1, labels2))
        /\ \A i, j \in DOMAIN cols : i < j => LexLess(cols[i], cols[j])

\* C3: for arrays with all values >= 0 and labels2 < 100000, correspondences
\* returns exactly the distinct co-occurring pairs, each once, in ascending
\* order of a and then b.
C3_ExactCorrespondences ==
    (fn = "correspondences" /\ pc = "done" /\ CorrPre(args.labels1, args.labels2)) =>
        /\ ret.kind = "return"
        /\ ExactPairs(ret.val, args.labels1, args.labels2)

\* C10: for int32 arrays that pass the assertions, the packed value of every
\* pixel decodes back to the pixel's pair (a, b), and two pixels with
\* different pairs never share a packed value.
C10_PackingLossless ==
    (fn = "correspondences" /\ pc = "done" /\ ret.kind = "return") =>
        LET combo == loc.combo
        IN  /\ \A i \in DOMAIN combo :
                   /\ combo[i] \div q = args.labels1[i]
                   /\ combo[i] % q = args.labels2[i]
            /\ \A i, j \in DOMAIN combo :
                   combo[i] = combo[j] =>
                       /\ args.labels1[i] = args.labels1[j]
                       /\ args.labels2[i] = args.labels2[j]

----------------------------------------------------------------------------
(***************************************************************************)
(* The labeling routine on one-row images.  measurements.label numbers the *)
(* connected regions (runs of non-zero pixels) 1, 2, ... in scan order and *)
(* returns the int32 label image and the number of regions.                *)
(***************************************************************************)

\* Pixel p starts a run of non-zero pixels.
RunStart(image, p) == image[p] # 0 /\ (p = 1 \/ image[p - 1] = 0)

\* For p in lo..hi, base + the number of runs started in lo..p, by halving.
RECURSIVE RunCounts(_, _, _, _)
RunCounts(image, lo, hi, base) ==
    IF lo = hi THEN <<base + (IF RunStart(image, lo) THEN 1 ELSE 0)>>
    ELSE LET mid == lo + (hi - lo) \div 2
             left == RunCounts(image, lo, mid, base)
         IN  left \o RunCounts(image, mid + 1, hi, left[Len(left)])

\* measurements.label(image): <<label image, number of regions>>.
MeasurementsLabel(image) ==
    LET c == RunCounts(image, 1, Len(image), 0)
    IN  <<[p \in 1..Len(image) |-> IF image[p] # 0 THEN c[p] ELSE 0], c[Len(image)]>>

(***************************************************************************)
(* propagate_labels_simple (lines 158-167) and propagate_labels (170-185). *)
(***************************************************************************)

\* np.zeros(n, 'i'), indexed from 0 as in the source.
Zeros(n) == [k \in 0..(n - 1) |-> 0]

\* A Python index o is valid for an array of length n.
InRange(o, n) == o >= -n /\ o < n

\* The position a valid Python index names: a negative index counts from
\* the end of the array.
PyIndex(o, n) == IF o < 0 THEN o + n ELSE o

\* Line 177.
oops == -(2^30)

\* The state of a loop over outputs: the array (of length n), or the
\* IndexError an assignment raised.
Running(outputs) == [ok |-> TRUE, outputs |-> outputs]
IndexError == [ok |-> FALSE, outputs |-> <<>>]

\* One iteration of the loop of propagate_labels_simple (line 165).
SimpleStep(st, n, o, i) ==
    IF ~st.ok \/ ~InRange(o, n) THEN IndexError
    ELSE Running([st.outputs EXCEPT ![PyIndex(o, n)] = i])

\* One iteration of the loop of propagate_labels (lines 179-182).
ConflictStep(st, n, o, i) ==
    IF ~st.ok \/ ~InRange(o, n) THEN IndexError
    ELSE IF st.outputs[PyIndex(o, n)] # 0
         THEN Running([st.outputs EXCEPT ![PyIndex(o, n)] = oops])
         ELSE Running([st.outputs EXCEPT ![PyIndex(o, n)] = i])

\* for o, i in cors.T with the loop body of propagate_labels_simple: the
\* columns lo..hi in order (the range is halved, the order kept).
RECURSIVE SimpleLoop(_, _, _, _, _)
SimpleLoop(st, n, cors, lo, hi) ==
    IF lo > hi THEN st
    ELSE IF lo = hi THEN SimpleStep(st, n, cors[1][lo], cors[2][lo])
    ELSE LET mid == lo + (hi - lo) \div 2
             first == SimpleLoop(st, n, cors, lo, mid)
         IN  IF first.ok THEN SimpleLoop(first, n, cors, mid + 1, hi) ELSE first

\* for o, i in cors.T with the loop body of propagate_labels.
RECURSIVE ConflictLoop(_, _, _, _, _)
ConflictLoop(st, n, cors, lo, hi) ==
    IF lo > hi THEN st
    ELSE IF lo = hi THEN ConflictStep(st, n, cors[1][lo], cors[2][lo])
    ELSE LET mid == lo + (hi - lo) \div 2
             first == ConflictLoop(st, n, cors, lo, mid)
         IN  IF first.ok THEN ConflictLoop(first, n, cors, mid + 1, hi) ELSE first

\* outputs[rlabels] (lines 167, 185).
Take(outputs, rlabels) == [p \in DOMAIN rlabels |-> outputs[rlabels[p]]]

\* The body of propagate_labels_simple(regions, labels).
PropagateLabelsSimple(regions, labels) ==
    LET rlabels == MeasurementsLabel(regions)[1]
        cors == Correspondences(rlabels, labels)
        n == Amax(rlabels) + 1
    IN  IF cors.kind = "raise" THEN cors
        ELSE LET looped == SimpleLoop(Running(Zeros(n)), n, cors.val, 1, Len(cors.val[1]))
             IN  IF ~looped.ok THEN Raise("IndexError")
                 ELSE Return(Take([looped.outputs EXCEPT ![0] = 0], rlabels))

\* The body of propagate_labels(image, labels, conflict).
PropagateLabels(image, labels, conflict) ==
    LET rlabels == MeasurementsLabel(image)[1]
        cors == Correspondences(rlabels, labels)
        n == Amax(rlabels) + 1
    IN  IF cors.kind = "raise" THEN cors
        ELSE LET looped == ConflictLoop(Running(Zeros(n)), n, cors.val, 1, Len(cors.val[1]))
             IN  IF ~looped.ok THEN Raise("IndexError")
                 ELSE LET resolved == [k \in DOMAIN looped.outputs |->
                                          IF looped.outputs[k] = oops
                                          THEN conflict ELSE looped.outputs[k]]
                      IN  Return(Take([resolved EXCEPT ![0] = 0], rlabels))

(***************************************************************************)
(* Large arrays are held in the state in blocks: a sequence of             *)
(* [times, unit] records, standing for each unit repeated times times, one *)
(* block after the other.  The functions of morph.py work on the array in  *)
(* full (Unpack); what they return is held as its runs of equal values.    *)
(***************************************************************************)

\* unit, n times over.
Repeat(unit, n) == [p \in 1..(n * Len(unit)) |-> unit[((p - 1) % Len(unit)) + 1]]

\* The array a sequence of blocks stands for.
RECURSIVE Unpack(_)
Unpack(blocks) ==
    IF blocks = <<>> THEN <<>>
    ELSE Repeat(blocks[1].unit, blocks[1].times) \o Unpack(Tail(blocks))

\* Two sequences of runs put together: the runs that meet are merged when
\* they hold the same value.
JoinRuns(l, r) ==
    IF l[Len(l)].unit = r[1].unit
    THEN SubSeq(l, 1, Len(l) - 1)
             \o <<[times |-> l[Len(l)].times + r[1].times, unit |-> r[1].unit]>>
             \o Tail(r)
    ELSE l \o r

\* The runs of equal values of a[lo..hi], as blocks, by halving.
RECURSIVE Runs(_, _, _)
Runs(a, lo, hi) ==
    IF lo = hi THEN <<[times |-> 1, unit |-> <<a[lo]>>]>>
    ELSE LET mid == lo + (hi - lo) \div 2
         IN  JoinRuns(Runs(a, lo, mid), Runs(a, mid + 1, hi))

\* An outcome with the array it returns held as runs.
Held(r) == IF r.kind = "return" THEN Return(Runs(r.val, 1, Len(r.val))) ELSE r

\* Bound: the length of the rows given in full to the propagate functions.
MaxRow == 3

\* Bound: the largest label value of the reference labels.
MaxLabel == 3

\* Bound: the length of the part that follows the isolated pixels of a
\* crowded row.
MaxTail == 1

\* A row given in full.
Plain(u) == <<[times |-> 1, unit |-> u]>>

\* A crowded row: so many isolated foreground pixels, each followed by a
\* background pixel, that the regions of the part u that follows get
\* numbers past MaxLossless + 1.
Crowded(u) == <<[times |-> MaxLossless + 1, unit |-> <<1, 0>>], [times |-> 1, unit |-> u]>>

\* Reference labels for a crowded row: 0 on the isolated pixels, then u.
CrowdedLabels(u) == <<[times |-> MaxLossless + 1, unit |-> <<0, 0>>], [times |-> 1, unit |-> u]>>

\* The values given as conflict.
ConflictValues == {0, 7}

InitProp ==
    /\ fn \in {"propagate_labels", "propagate_labels_simple"}
    /\ \/ \E n \in 1..MaxRow : \E im \in [1..n -> {0, 1}], lb \in [1..n -> 0..MaxLabel],
                                  c \in ConflictValues :
              args = [image |-> Plain(im), labels |-> Plain(lb),
                      conflict |-> IF fn = "propagate_labels" THEN c ELSE 0]
       \/ \E n \in 1..MaxTail : \E im \in [1..n -> {1}], lb \in [1..n -> 0..1],
                                   c \in ConflictValues :
              args = [image |-> Crowded(im), labels |-> CrowdedLabels(lb),
                      conflict |-> IF fn = "propagate_labels" THEN c ELSE 0]
    /\ env = [accepts |-> {"image"}]
    /\ pc = "call"
    /\ loc = <<>>
    /\ ret = NoRet

CallPropagateLabelsSimple ==
    /\ fn = "propagate_labels_simple"
    /\ pc = "call"
    /\ ret' = Held(PropagateLabelsSimple(Unpack(args.image), Unpack(args.labels)))
    /\ pc' = "done"
    /\ UNCHANGED <<fn, args, env, loc>>

CallPropagateLabels ==
    /\ fn = "propagate_labels"
    /\ pc = "call"
    /\ ret' = Held(PropagateLabels(Unpack(args.image), Unpack(args.labels), args.conflict))
    /\ pc' = "done"
    /\ UNCHANGED <<fn, args, env, loc>>

NextProp == CallPropagateLabelsSimple \/ CallPropagateLabels

SpecProp == InitProp /\ [][NextProp]_vars

----------------------------------------------------------------------------
(* Claims about propagate_labels_simple and propagate_labels.              *)

\* The first and the last pixel of the connected region (run) of pixel p.
RECURSIVE RegionLo(_, _)
RegionLo(image, p) == IF p = 1 \/ image[p - 1] = 0 THEN p ELSE RegionLo(image, p - 1)

RECURSIVE RegionHi(_, _)
RegionHi(image, p) ==
    IF p = Len(image) \/ image[p + 1] = 0 THEN p ELSE RegionHi(image, p + 1)

\* The non-zero values of labels found on the pixels of the region of p.
LabelsFound(image, labels, p) ==
    {labels[r] : r \in RegionLo(image, p)..RegionHi(image, p)} \ {0}

SetMax(S) == CHOOSE x \in S : \A y \in S : y <= x

\* What the claims say propagate_labels returns for image, labels, conflict.
ExpectedPropagate(image, labels, conflict) ==
    [p \in DOMAIN image |->
        LET found == LabelsFound(image, labels, p)
        IN  IF image[p] = 0 \/ found = {} THEN 0
            ELSE IF Cardinality(found) = 1 THEN SetMax(found)
            ELSE conflict]

\* What the claims say propagate_labels_simple returns for regions, labels.
ExpectedSimple(regions, labels) ==
    [p \in DOMAIN regions |->
        LET found == LabelsFound(regions, labels, p)
        IN  IF regions[p] = 0 \/ found = {} THEN 0 ELSE SetMax(found)]

\* C4: propagate_labels gives every pixel of a region the only non-zero
\* label found on the region, the value conflict when two or more distinct
\* non-zero labels are found on it, and 0 when none is; every background
\* pixel gets 0.
C4_PropagateLabels ==
    (fn = "propagate_labels" /\ pc = "done") =>
        /\ ret.kind = "return"
        /\ Unpack(ret.val) =
               ExpectedPropagate(Unpack(args.image), Unpack(args.labels), args.conflict)

\* C6: propagate_labels_simple fills every region that overlaps a non-zero
\* label with the largest non-zero label found on its pixels, every other
\* region with 0, and gives every background pixel 0.
C6_PropagateLabelsSimple ==
    (fn = "propagate_labels_simple" /\ pc = "done") =>
        /\ ret.kind = "return"
        /\ Unpack(ret.val) = ExpectedSimple(Unpack(args.image), Unpack(args.labels))

----------------------------------------------------------------------------
(***************************************************************************)
(* select_regions (lines 188-201).                                         *)
(***************************************************************************)

\* measurements.find_objects(labels): for each label 1..n the slice that
\* bounds its pixels, [start, stop) counted from 0.
FindObjects(labels, n) ==
    [k \in 1..n |->
        LET px == {p \in DOMAIN labels : labels[p] = k}
        IN  [start |-> (CHOOSE p \in px : \A r \in px : p <= r) - 1,
             stop |-> CHOOSE p \in px : \A r \in px : p >= r]]

\* [f(o) for o in objects] (line 194), a Python list indexed from 0.
Scores(f, objects) == [i \in 0..(Len(objects) - 1) |-> f[objects[i + 1]]]

\* The outcomes np.argsort(scores) may have: the orders of the indices in
\* which the scores ascend (the order of equal scores is the library's).
ArgSorts(scores) ==
    LET n == Cardinality(DOMAIN scores)
    IN  {b \in [1..n -> DOMAIN scores] :
            /\ \A i, j \in 1..n : i # j => b[i] # b[j]
            /\ \A i \in 1..(n - 1) : scores[b[i]] <= scores[b[i + 1]]}

\* A faulty variant of LastN: best[:nbest], the first nbest elements.
FirstN(best, nbest) ==
    SubSeq(best, 1, IF nbest < Len(best) THEN nbest ELSE Len(best))

\* best[-nbest:] (line 197) for nbest >= 0: the slice starts at -nbest,
\* which counts from the end when it is negative and is the start of the
\* sequence when it is 0.
LastN(best, nbest) ==
    LET start == IF -nbest < 0
                 THEN (IF Len(best) - nbest > 0 THEN Len(best) - nbest ELSE 0)
                 ELSE 0
    IN  SubSeq(best, start + 1, Len(best))

\* The loop of lines 197-200 over the elements of sel, in order.
RECURSIVE KeepLoop(_, _, _, _)
KeepLoop(keep, sel, scores, min) ==
    IF sel = <<>> THEN keep
    ELSE IF scores[Head(sel)] <= min
         THEN KeepLoop(keep, Tail(sel), scores, min)
         ELSE KeepLoop([keep EXCEPT ![Head(sel) + 1] = 1], Tail(sel), scores, min)

\* The body of select_regions after np.argsort has returned best.
SelectRegions(labels, objects, scores, best, min, nbest) ==
    Take(KeepLoop(Zeros(Len(objects) + 1), LastN(best, nbest), scores, min), labels)

\* Bound: the length of the rows given to select_regions.
MaxBinary == 5

\* Bound: the largest score the scoring function gives.
MaxScore == 2

\* Bound: the largest nbest.
MaxNbest == 3

\* The objects of a binary image.
ObjectsOf(binary) ==
    FindObjects(MeasurementsLabel(binary)[1], MeasurementsLabel(binary)[2])

InitSelect ==
    /\ fn = "select_regions"
    /\ \E binary \in [1..MaxBinary -> {0, 1}] :
           \E f \in [{ObjectsOf(binary)[k] : k \in DOMAIN ObjectsOf(binary)} -> 0..MaxScore],
              min \in 0..(MaxScore - 1), nbest \in 0..MaxNbest :
               args = [binary |-> binary, f |-> f, min |-> min, nbest |-> nbest]
    /\ env = [accepts |-> {"image"}]
    /\ pc = "call"
    /\ loc = <<>>
    /\ ret = NoRet

CallSelectRegions ==
    /\ fn = "select_regions"
    /\ pc = "call"
    /\ LET labels == MeasurementsLabel(args.binary)[1]
           n == MeasurementsLabel(args.binary)[2]
           objects == FindObjects(labels, n)
           scores == Scores(args.f, objects)
       IN  \E best \in ArgSorts(scores) :
               /\ loc' = [labels |-> labels, scores |-> scores, best |-> best]
               /\ ret' = Return(SelectRegions(labels, objects, scores, best,
                                              args.min, args.nbest))
    /\ pc' = "done"
    /\ UNCHANGED <<fn, args, env>>

NextSelect == CallSelectRegions

SpecSelect == InitSelect /\ [][NextSelect]_vars

----------------------------------------------------------------------------
(* Claims about select_regions.                                            *)

\* The connected regions of a binary row, each named by its first pixel.
RegionsOf(binary) == {RegionLo(binary, p) : p \in {x \in DOMAIN binary : binary[x] # 0}}

\* The score f gives the region that starts at pixel r.
ScoreOf(binary, f, r) == f[[start |-> r - 1, stop |-> RegionHi(binary, r)]]

\* The regions with a pixel that is 1 in the mask.
KeptRegions(binary, mask) ==
    {RegionLo(binary, p) : p \in {x \in DOMAIN binary : binary[x] # 0 /\ mask[x] = 1}}

\* C5: for every nbest >= 0 and every scoring function, at most nbest
\* regions of binary have pixels that are 1 in the returned mask.
C5_AtMostNbest ==
    (fn = "select_regions" /\ pc = "done") =>
        Cardinality(KeptRegions(args.binary, ret.val)) <= args.nbest

\* C8: for nbest >= 1 the regions kept are the regions scoring above min
\* among the nbest highest-scoring ones: no kept region scores <= min, no
\* dropped region scoring above min scores strictly higher than a kept one,
\* a region scoring above min is dropped only when nbest other regions score
\* at least as high, and no background pixel is 1 in the result.
C8_KeepsBestAboveMin ==
    (fn = "select_regions" /\ pc = "done" /\ args.nbest >= 1) =>
        LET binary == args.binary
            all == RegionsOf(binary)
            kept == KeptRegions(binary, ret.val)
            score(r) == ScoreOf(binary, args.f, r)
        IN  /\ ret.kind = "return"
            /\ \A p \in DOMAIN binary :
                   /\ ret.val[p] \in {0, 1}
                   /\ binary[p] = 0 => ret.val[p] = 0
                   /\ binary[p] # 0 => (ret.val[p] = 1 <=> RegionLo(binary, p) \in kept)
            /\ Cardinality(kept) <= args.nbest
            /\ \A r \in kept : score(r) > args.min
            /\ \A d \in all \ kept : \A k \in kept :
                   score(d) > args.min => score(d) <= score(k)
            /\ \A d \in all \ kept :
                   score(d) > args.min =>
                       Cardinality({o \in all \ {d} : score(o) >= score(d)}) >= args.nbest

\* Witness of C8: three regions score above min, nbest is 1, and the one
\* region kept is the highest-scoring one.
C8_Witness ==
    /\ fn = "select_regions"
    /\ pc = "done"
    /\ args.nbest = 1
    /\ args.binary = <<1, 0, 1, 0, 1>>
    /\ \A r \in RegionsOf(args.binary) : ScoreOf(args.binary, args.f, r) > args.min
    /\ ScoreOf(args.binary, args.f, 3) > ScoreOf(args.binary, args.f, 1)
    /\ ret.val = <<0, 0, 1, 0, 0>>

----------------------------------------------------------------------------
(***************************************************************************)
(* The rectangular filters (lines 51-132), on one-row images.  The filters *)
(* of the host library place a window of size pixels on each pixel i: it   *)
(* covers i - size//2 - origin up to size pixels further right.            *)
(***************************************************************************)

\* The call whose outcome is r raised an exception.
Raised(r) == r.kind = "raise"

\* The library refuses an origin that puts the window's centre outside it.
ValidOrigin(size, origin) == (size \div 2) + origin >= 0 /\ (size \div 2) + origin < size

\* The positions the window of pixel i covers.
Window(i, size, origin) == {i - (size \div 2) - origin + k : k \in 0..(size - 1)}

\* mode='reflect' (the default): the position inside 1..n that a position
\* outside stands for, the row being mirrored about its edges.
Reflect(j, n) ==
    LET m == (j - 1) % (2 * n)
    IN  IF m < n THEN m + 1 ELSE 2 * n - m

SetMin(S) == CHOOSE x \in S : \A y \in S : x <= y

\* filters.maximum_filter(image, size, origin=origin).
MaximumFilter(image, size, origin) ==
    IF ~ValidOrigin(size, origin) THEN Raise("ValueError")
    ELSE Return([i \in DOMAIN image |->
                    SetMax({image[Reflect(j, Len(image))] : j \in Window(i, size, origin)})])

\* filters.minimum_filter(image, size, origin=origin).
MinimumFilter(image, size, origin) ==
    IF ~ValidOrigin(size, origin) THEN Raise("ValueError")
    ELSE Return([i \in DOMAIN image |->
                    SetMin({image[Reflect(j, Len(image))] : j \in Window(i, size, origin)})])

\* The sum over the window of pixel i, with cval outside the row
\* (mode='constant'); filters.uniform_filter is this sum divided by size.
RECURSIVE SumOver(_, _, _)
SumOver(image, W, cval) ==
    IF W = {} THEN 0
    ELSE LET j == CHOOSE x \in W : TRUE
         IN  (IF j \in DOMAIN image THEN image[j] ELSE cval) + SumOver(image, W \ {j}, cval)

UniformSums(image, size, origin, cval) ==
    IF ~ValidOrigin(size, origin) THEN Raise("ValueError")
    ELSE Return([i \in DOMAIN image |-> SumOver(image, Window(i, size, origin), cval)])

\* check_binary (lines 51-56): the values must lie in 0..1.
CheckBinary(image) ==
    IF Amin(image) >= 0 /\ Amax(image) <= 1 THEN Return(image) ELSE Raise("AssertionError")

\* Lines 59-66.
r_dilation(image, size, origin) == MaximumFilter(image, size, origin)
r_erosion(image, size, origin) == MinimumFilter(image, size, origin)

\* Lines 69-74.
r_opening(image, size, origin) ==
    IF Raised(CheckBinary(image)) THEN CheckBinary(image)
    ELSE LET eroded == r_erosion(image, size, origin)
         IN  IF Raised(eroded) THEN eroded ELSE r_dilation(eroded.val, size, origin)

\* Lines 77-82: both filter calls are given origin=0.
r_closing(image, size, origin) ==
    IF Raised(CheckBinary(image)) THEN CheckBinary(image)
    ELSE LET dilated == r_dilation(image, size, 0)
         IN  IF Raised(dilated) THEN dilated ELSE r_erosion(dilated.val, size, 0)

\* Lines 85-90: the mean over the window is > 0.
rb_dilation(image, size, origin) ==
    LET sums == UniformSums(image, size, origin, 0)
    IN  IF Raised(sums) THEN sums
        ELSE Return([i \in DOMAIN sums.val |-> IF sums.val[i] > 0 THEN 1 ELSE 0])

\* Lines 93-98: the mean over the window is 1.
rb_erosion(image, size, origin) ==
    LET sums == UniformSums(image, size, origin, 1)
    IN  IF Raised(sums) THEN sums
        ELSE Return([i \in DOMAIN sums.val |-> IF sums.val[i] = size THEN 1 ELSE 0])

\* Lines 101-104.
rb_opening(image, size, origin) ==
    LET eroded == rb_erosion(image, size, origin)
    IN  IF Raised(eroded) THEN eroded ELSE rb_dilation(eroded.val, size, origin)

\* Lines 107-110.
rb_closing(image, size, origin) ==
    LET dilated == rb_dilation(image, size, origin)
    IN  IF Raised(dilated) THEN dilated ELSE rb_erosion(dilated.val, size, origin)

\* Lines 113-120.
rg_dilation(image, size, origin) == MaximumFilter(image, size, origin)
rg_erosion(image, size, origin) == MinimumFilter(image, size, origin)

\* Lines 123-126: the filters called are r_erosion and r_dilation.
rg_opening(image, size, origin) ==
    LET eroded == r_erosion(image, size, origin)
    IN  IF Raised(eroded) THEN eroded ELSE r_dilation(eroded.val, size, origin)

\* Lines 129-132: both filter calls are given origin=0.
rg_closing(image, size, origin) ==
    LET dilated == r_dilation(image, size, 0)
    IN  IF Raised(dilated) THEN dilated ELSE r_erosion(dilated.val, size, 0)

\* Bound: the length of the rows given to the filters.
MaxWidth == 4

\* Bound: the largest size of the structuring element.
MaxSize == 3

\* Bound: the largest pixel value of a grayscale row.
MaxGray == 2

\* Bound: the largest shift of the origin, to either side.
MaxShift == 1

Openings == {"r_opening", "rb_opening", "rg_opening"}
Closings == {"r_closing", "rb_closing", "rg_closing"}

InitMorph ==
    /\ fn \in Openings \cup Closings
    /\ args \in [image : [1..MaxWidth -> 0..MaxGray], size : 1..MaxSize,
                 origin : (-MaxShift)..MaxShift]
    /\ env = [accepts |-> {"image"}]
    /\ pc = "call"
    /\ loc = <<>>
    /\ ret = NoRet

Call_r_opening ==
    /\ fn = "r_opening" /\ pc = "call"
    /\ ret' = r_opening(args.image, args.size, args.origin)
    /\ pc' = "done"
    /\ UNCHANGED <<fn, args, env, loc>>

Call_r_closing ==
    /\ fn = "r_closing" /\ pc = "call"
    /\ ret' = r_closing(args.image, args.size, args.origin)
    /\ pc' = "done"
    /\ UNCHANGED <<fn, args, env, loc>>

Call_rb_opening ==
    /\ fn = "rb_opening" /\ pc = "call"
    /\ ret' = rb_opening(args.image, args.size, args.origin)
    /\ pc' = "done"
    /\ UNCHANGED <<fn, args, env, loc>>

Call_rb_closing ==
    /\ fn = "rb_closing" /\ pc = "call"
    /\ ret' = rb_closing(args.image, args.size, args.origin)
    /\ pc' = "done"
    /\ UNCHANGED <<fn, args, env, loc>>

Call_rg_opening ==
    /\ fn = "rg_opening" /\ pc = "call"
    /\ ret' = rg_opening(args.image, args.size, args.origin)
    /\ pc' = "done"
    /\ UNCHANGED <<fn, args, env, loc>>

Call_rg_closing ==
    /\ fn = "rg_closing" /\ pc = "call"
    /\ ret' = rg_closing(args.image, args.size, args.origin)
    /\ pc' = "done"
    /\ UNCHANGED <<fn, args, env, loc>>

NextMorph ==
    \/ Call_r_opening \/ Call_r_closing
    \/ Call_rb_opening \/ Call_rb_closing
    \/ Call_rg_opening \/ Call_rg_closing

SpecMorph == InitMorph /\ [][NextMorph]_vars

----------------------------------------------------------------------------
(* Claims about the openings and closings.                                 *)

\* The dilation and the erosion of the variant ("r", "rb" or "rg") of f.
DilationOf(f, image, size, origin) ==
    IF f \in {"r_opening", "r_closing"} THEN r_dilation(image, size, origin)
    ELSE IF f \in {"rb_opening", "rb_closing"} THEN rb_dilation(image, size, origin)
    ELSE rg_dilation(image, size, origin)

ErosionOf(f, image, size, origin) ==
    IF f \in {"r_opening", "r_closing"} THEN r_erosion(image, size, origin)
    ELSE IF f \in {"rb_opening", "rb_closing"} THEN rb_erosion(image, size, origin)
    ELSE rg_erosion(image, size, origin)

\* What the claim says f returns: the two filter steps of its variant, both
\* with the caller's size and origin.
TwoSteps(f, image, size, origin) ==
    LET first == IF f \in Closings THEN DilationOf(f, image, size, origin)
                                   ELSE ErosionOf(f, image, size, origin)
    IN  IF Raised(first) THEN first
        ELSE IF f \in Closings THEN ErosionOf(f, first.val, size, origin)
        ELSE DilationOf(f, first.val, size, origin)

\* C9: every opening and closing variant returns, for every origin the
\* filters accept, what its two filter steps return when both are given the
\* caller's size and origin (on the images the variant accepts).
C9_TwoStepsWithCallersOrigin ==
    (/\ fn \in Openings \cup Closings
     /\ pc = "done"
     /\ ret # Raise("AssertionError")
     /\ ValidOrigin(args.size, args.origin)) =>
        ret = TwoSteps(fn, args.image, args.size, args.origin)

----------------------------------------------------------------------------
(***************************************************************************)
(* spread_labels (lines 135-143), on 2-D label images.  An image of shape  *)
(* <<h, w>> is a function of the pixels <<row, column>>, counted from 0.   *)
(***************************************************************************)

Pixels(shape) == (0..(shape[1] - 1)) \X (0..(shape[2] - 1))

\* The square of the Euclidean distance of two pixels.
Dist2(x, y) == (x[1] - y[1]) * (x[1] - y[1]) + (x[2] - y[2]) * (x[2] - y[2])

\* The pixels where the mask given to the distance transform is false: the
\* labelled pixels, as the mask is labels == 0.
Labelled(labels) == {x \in DOMAIN labels : labels[x] # 0}

\* The labelled pixels nearest to pixel y.
Nearest(labels, y) ==
    {x \in Labelled(labels) : \A z \in Labelled(labels) : Dist2(y, x) <= Dist2(y, z)}

\* The functions that give every pixel of P one of its nearest labelled pixels.
RECURSIVE FeatureChoices(_, _)
FeatureChoices(labels, P) ==
    IF P = {} THEN {<<>>}
    ELSE LET y == CHOOSE z \in P : TRUE
         IN  {(y :> x) @@ f : x \in Nearest(labels, y), f \in FeatureChoices(labels, P \ {y})}

\* The outcomes of morphology.distance_transform_edt(labels == 0,
\* return_distances=1, return_indices=1): for every pixel the index of a
\* nearest labelled pixel (which one of several is the library's choice);
\* the distances follow from the indices.
DistanceTransforms(labels) ==
    {[features |-> f] : f \in FeatureChoices(labels, DOMAIN labels)}

Distances2(labels, features) == [y \in DOMAIN labels |-> Dist2(y, features[y])]

\* labels.ravel(): the row-major view of the image, indexed from 0.
Ravel(labels, shape) ==
    [k \in 0..(shape[1] * shape[2] - 1) |-> labels[<<k \div shape[2], k % shape[2]>>]]

\* features[0] * labels.shape[1] + features[1] (line 140).
Indexes(features, shape) == [y \in DOMAIN features |-> features[y][1] * shape[2] + features[y][2]]

\* A faulty variant of Within: distances <= maxdist.
WithinOrAt(d2, maxdist) == d2 <= maxdist * maxdist

\* distances < maxdist (line 142), for a distance whose square is d2 and a
\* maxdist >= 0.
Within(d2, maxdist) == d2 < maxdist * maxdist

\* Lines 141-142: spread is a new array (indexing with an array copies),
\* multiplied in place by the mask distances < maxdist.
Spread(labels, shape, features, maxdist) ==
    [y \in DOMAIN labels |->
        Ravel(labels, shape)[Indexes(features, shape)[y]]
            * (IF Within(Distances2(labels, features)[y], maxdist) THEN 1 ELSE 0)]

\* A faulty variant of LabelsAfter: spread is a view of labels, so the
\* multiplication in place reaches the caller's array.
LabelsAfterView(labels, shape, features, maxdist) ==
    Spread(labels, shape, features, maxdist)

\* The caller's array after the call: line 142 writes to spread alone.
LabelsAfter(labels, shape, features, maxdist) == labels

\* The shapes of the images given to spread_labels.
Shapes == {<<1, 3>>, <<2, 2>>, <<2, 3>>}

\* Bound: the largest label value of the images given to spread_labels.
MaxSpreadLabel == 2

\* Bound: the largest maxdist.
MaxDist == 3

InitSpread ==
    /\ fn = "spread_labels"
    /\ \E shape \in Shapes :
           \E labels \in [Pixels(shape) -> 0..MaxSpreadLabel], maxdist \in 0..MaxDist :
               /\ Labelled(labels) # {}
               /\ args = [labels |-> labels, shape |-> shape, maxdist |-> maxdist]
    /\ env = [accepts |-> {"image"}]
    /\ pc = "call"
    /\ loc = <<>>
    /\ ret = NoRet

CallSpreadLabels ==
    /\ fn = "spread_labels"
    /\ pc = "call"
    /\ \E t \in DistanceTransforms(args.labels) :
           /\ loc' = [labels |-> args.labels, features |-> t.features]
           /\ ret' = Return(Spread(args.labels, args.shape, t.features, args.maxdist))
           /\ args' = [args EXCEPT !.labels =
                           LabelsAfter(args.labels, args.shape, t.features, args.maxdist)]
    /\ pc' = "done"
    /\ UNCHANGED <<fn, env>>

NextSpread == CallSpreadLabels

SpecSpread == InitSpread /\ [][NextSpread]_vars

----------------------------------------------------------------------------
(* Claims about spread_labels.                                             *)

\* The square of the distance of pixel y to the nearest labelled pixel.
NearestDist2(labels, y) ==
    SetMin({Dist2(y, x) : x \in Labelled(labels)})

\* C7: on an image with a labelled pixel, spread_labels leaves every labelled
\* pixel its label (for maxdist > 0), gives every background pixel nearer
\* than maxdist to a labelled pixel the label of a labelled pixel at the
\* least distance, gives every pixel at distance >= maxdist 0, and leaves
\* the array it was given as it was.
C7_SpreadLabels ==
    (fn = "spread_labels" /\ pc = "done") =>
        LET labels == loc.labels
            m2 == args.maxdist * args.maxdist
        IN  /\ ret.kind = "return"
            /\ args.labels = labels
            /\ \A y \in DOMAIN labels :
                   /\ (labels[y] # 0 /\ args.maxdist > 0) => ret.val[y] = labels[y]
                   /\ (labels[y] = 0 /\ NearestDist2(labels, y) < m2) =>
                          \E x \in Labelled(labels) :
                              /\ Dist2(y, x) = NearestDist2(labels, y)
                              /\ ret.val[y] = labels[x]
                   /\ NearestDist2(labels, y) >= m2 => ret.val[y] = 0

\* Witness of C7: a background pixel at distance 1 took the label 2 of its
\* neighbour, and a background pixel at distance 2 = maxdist was left 0.
C7_Witness ==
    /\ fn = "spread_labels"
    /\ pc = "done"
    /\ args.maxdist = 2
    /\ args.shape = <<1, 3>>
    /\ loc.labels = (<<0, 0>> :> 2 @@ <<0, 1>> :> 0 @@ <<0, 2>> :> 0)
    /\ ret.val = (<<0, 0>> :> 2 @@ <<0, 1>> :> 2 @@ <<0, 2>> :> 0)

=============================================================================
